---------------------------- MODULE Spec2Model ----------------------------
(***************************************************************************)
(* FinSight real-time price streaming client.                              *)
(*                                                                         *)
(*   WebSocketManager   frontend/src/websocket.ts (src/frontend/app/       *)
(*                      news.tsx lines 439-538)                            *)
(*   useRealtimePrice   src/frontend/src/hooks/useRealtimePrice.ts         *)
(*   useMarketStatus    src/unnamed/part_011                               *)
(*   useWebSocketPrices src/frontend/src/hooks/useWebSocketPrices.ts       *)
(*   WS_BASE            src/frontend/src/api.ts                            *)
(*                                                                         *)
(* The singleton wsManager, the transports it created and the timers it    *)
(* armed are one record, so that a handler that calls several manager      *)
(* methods in a row (an effect: connect(); subscribe([s])) is one action.  *)
(***************************************************************************)
EXTENDS Integers, Sequences, FiniteSets, TLC

\* ------------------------------------------------------------- bounds
\* Transports (new WebSocket) created in one run.
MaxSockets == 3
\* Transports created in one run of the application specification.
MaxAppSockets == 2
\* Hook instances of useRealtimePrice mounted in one run.
MaxAdapters == 2
\* Effect runs of useRealtimePrice (mounts and symbol changes) in one run.
MaxActivations == 2
\* Hook instances of useMarketStatus mounted in one run.
MaxStatusAdapters == 1

\* ------------------------------------------------------------- constants
ReconnectFloor == 1000
ReconnectCeiling == 30000

Symbols == {"ACME", "INFY"}
Updates == {[price |-> 101, change |-> 1, volume |-> 500]}
\* msg.data?.status of a market_status frame: a string, or absent ("none").
FrameStatuses == {"open", "none"}

NULL == 0
CONNECTING == "CONNECTING"
OPEN == "OPEN"
CLOSING == "CLOSING"
CLOSED == "CLOSED"

Min(a, b) == IF a < b THEN a ELSE b

VARIABLES
    sys,        \* wsManager's fields, the transports and the pending timers
    adapters,   \* useRealtimePrice instances, in mount order
    statuses,   \* useMarketStatus instances, in mount order
    lastOp,     \* the handler that ran last, and what it did
    torn,       \* disconnect() returned and no caller has called connect() since
    hook,       \* the useWebSocketPrices instance, its transports and timers
    WS_BASE     \* the endpoint address derived from EXPO_PUBLIC_BACKEND_URL

vars == <<sys, adapters, statuses, lastOp, torn, hook, WS_BASE>>

\* ------------------------------------------------------------- transports
\* A transport as the runtime holds it: readyState, whether it ever opened,
\* whether close() was called on it (a planned close), and what the frames
\* written to it add up to at the feed: the symbols of the subscribe frames
\* minus those of the unsubscribe frames (none once it has closed).
NewSocket ==
    [readyState |-> CONNECTING, opened |-> FALSE, byClient |-> FALSE, subs |-> {}]

\* The feed's subscription set of a connection after it received `msg`.
FeedReceives(subs, msg) ==
    IF msg.action = "subscribe" THEN subs \cup msg.symbols
    ELSE IF msg.action = "unsubscribe" THEN subs \ msg.symbols
    ELSE subs

\* WebSocket.close(): CONNECTING/OPEN -> CLOSING, the close event follows
\* later; no effect on a transport that is CLOSING or CLOSED.
SocketClose(sock) ==
    IF sock.readyState \in {CONNECTING, OPEN}
    THEN [sock EXCEPT !.readyState = CLOSING, !.byClient = TRUE]
    ELSE sock

\* ------------------------------------------------------------- WebSocketManager
InitManager ==
    [ ws |-> NULL,
      reconnectDelay |-> ReconnectFloor,
      heartbeatInterval |-> NULL,
      reconnectTimeout |-> NULL,
      subscribedSymbols |-> {},
      connected |-> FALSE,
      onPriceUpdate |-> <<>>,
      onMarketStatus |-> <<>>,
      sockets |-> <<>>,      \* transports created so far, by creation order
      timeouts |-> {},       \* pending setTimeout handles
      intervals |-> {},      \* active setInterval handles
      sent |-> <<>> ]        \* frames written to a transport by the running handler

\* The guard of connect(): the current transport is OPEN or CONNECTING.
ConnectIsNoop(s) ==
    /\ s.ws # NULL
    /\ s.sockets[s.ws].readyState \in {OPEN, CONNECTING}

\* connect() with the readyState guard left out.
connect_NoGuard(s) ==
    [s EXCEPT !.sockets = Append(@, NewSocket), !.ws = Len(s.sockets) + 1]

connect(s) ==
    IF ConnectIsNoop(s) THEN s
    ELSE [s EXCEPT !.sockets = Append(@, NewSocket),
                   !.ws = Len(s.sockets) + 1]

\* _send that writes to the current transport whatever its readyState.
_send_NoCheck(s, msg) ==
    IF s.ws # NULL
    THEN [s EXCEPT !.sent = Append(@, [msg EXCEPT !.sock = s.ws])]
    ELSE s

_send(s, msg) ==
    IF s.ws # NULL /\ s.sockets[s.ws].readyState = OPEN
    THEN [s EXCEPT !.sent = Append(@, [msg EXCEPT !.sock = s.ws]),
                   !.sockets[s.ws].subs = FeedReceives(@, msg)]
    ELSE s

SubscribeFrame(symbols) == [action |-> "subscribe", symbols |-> symbols, sock |-> NULL]
UnsubscribeFrame(symbols) == [action |-> "unsubscribe", symbols |-> symbols, sock |-> NULL]
PingFrame == [action |-> "ping", symbols |-> {}, sock |-> NULL]

\* ws.onopen that replays only what was wanted before the first connect:
\* nothing after a reconnect.
onopen_ReplayFirstOnly(s, k) ==
    LET s1 == [s EXCEPT !.connected = TRUE, !.reconnectDelay = ReconnectFloor]
        s2 == IF s1.subscribedSymbols # {} /\ k = 1
              THEN [s1 EXCEPT !.sent = Append(@, [action |-> "subscribe",
                        symbols |-> s1.subscribedSymbols, sock |-> s1.ws])]
              ELSE s1
    IN  [s2 EXCEPT !.heartbeatInterval = k, !.intervals = @ \cup {k}]

\* ws.onopen of transport k; the handle of the interval it starts is k.
onopen(s, k) ==
    LET s1 == [s EXCEPT !.connected = TRUE, !.reconnectDelay = ReconnectFloor]
        s2 == IF s1.subscribedSymbols # {}
              THEN _send(s1, SubscribeFrame(s1.subscribedSymbols))
              ELSE s1
    IN  [s2 EXCEPT !.heartbeatInterval = k, !.intervals = @ \cup {k}]

clearInterval(s, h) == [s EXCEPT !.intervals = @ \ {h}]
clearTimeout(s, t) == [s EXCEPT !.timeouts = @ \ {t}]

\* ws.onclose that leaves the heartbeat interval running.
onclose_KeepHeartbeat(s, k) ==
    [s EXCEPT !.connected = FALSE, !.reconnectTimeout = k, !.timeouts = @ \cup {k}]

\* ws.onclose of transport k; the handle of the timeout it arms is k.
onclose(s, k) ==
    LET s1 == [s EXCEPT !.connected = FALSE]
        s2 == IF s1.heartbeatInterval # NULL
              THEN clearInterval(s1, s1.heartbeatInterval)
              ELSE s1
    IN  [s2 EXCEPT !.reconnectTimeout = k, !.timeouts = @ \cup {k}]

\* A timeout callback that stops retrying once the delay has been doubled
\* twice.
reconnectCallback_GiveUp(s) ==
    LET s1 == [s EXCEPT !.reconnectDelay = Min(s.reconnectDelay * 2, ReconnectCeiling)]
    IN  IF s1.reconnectDelay >= 4 * ReconnectFloor THEN s1 ELSE connect(s1)

\* A timeout callback that doubles the delay without the ceiling.
reconnectCallback_NoCeiling(s) ==
    connect([s EXCEPT !.reconnectDelay = s.reconnectDelay * 2])

\* The callback of the timeout armed by onclose.
reconnectCallback(s) ==
    connect([s EXCEPT !.reconnectDelay = Min(s.reconnectDelay * 2, ReconnectCeiling)])

\* disconnect() that drops the transport without closing it.
disconnect_NoClose(s) ==
    LET s1 == IF s.reconnectTimeout # NULL
              THEN [s EXCEPT !.timeouts = @ \ {s.reconnectTimeout}] ELSE s
        s2 == IF s1.heartbeatInterval # NULL
              THEN [s1 EXCEPT !.intervals = @ \ {s1.heartbeatInterval}] ELSE s1
    IN  [s2 EXCEPT !.ws = NULL, !.connected = FALSE]

disconnect(s) ==
    LET s1 == IF s.reconnectTimeout # NULL
              THEN clearTimeout(s, s.reconnectTimeout) ELSE s
        s2 == IF s1.heartbeatInterval # NULL
              THEN clearInterval(s1, s1.heartbeatInterval) ELSE s1
        s3 == IF s2.ws # NULL
              THEN [s2 EXCEPT !.sockets[s2.ws] = SocketClose(@)] ELSE s2
    IN  [s3 EXCEPT !.ws = NULL, !.connected = FALSE]

subscribe(s, symbols) ==
    LET s1 == [s EXCEPT !.subscribedSymbols = @ \cup symbols]
    IN  IF s1.connected THEN _send(s1, SubscribeFrame(symbols)) ELSE s1

unsubscribe(s, symbols) ==
    LET s1 == [s EXCEPT !.subscribedSymbols = @ \ symbols]
    IN  IF s1.connected THEN _send(s1, UnsubscribeFrame(symbols)) ELSE s1

isConnected(s) == s.connected


\* ------------------------------------------------------------- useRealtimePrice
\* useState initial value of a hook instance.
InitData == [price |-> NULL, change |-> NULL, volume |-> NULL, connected |-> FALSE]

NewAdapter(symbol) ==
    [mounted |-> TRUE, symbol |-> symbol, symbolRef |-> symbol, data |-> InitData]

\* React's state setter: an update for an unmounted instance is dropped.
setData(ads, i, value) ==
    IF ads[i].mounted THEN [ads EXCEPT ![i].data = value] ELSE ads

\* A registration that replaces the slot instead of chaining onto it.
RegisterPriceHandler_Replace(s, i) == [s EXCEPT !.onPriceUpdate = <<i>>]

\* wsManager.onPriceUpdate = (sym, update) => { if (prev) prev(...); ... }:
\* the slot holds the closure of instance i, which calls the closures before it.
RegisterPriceHandler(s, i) == [s EXCEPT !.onPriceUpdate = Append(@, i)]

\* The body of the first effect of instance i for `symbol`.
PriceEffect(s, i, symbol) ==
    subscribe(RegisterPriceHandler(connect(s), i), {symbol})

\* A cleanup that does not unsubscribe.
PriceCleanup_Nothing(s, symbol) == s

\* Its cleanup.
PriceCleanup(s, symbol) == unsubscribe(s, {symbol})

\* The closure registered by instance i, called with (sym, update).
PriceHandler(ads, i, sym, update) ==
    IF sym = ads[i].symbolRef
    THEN setData(ads, i, [price |-> update.price, change |-> update.change,
                          volume |-> update.volume, connected |-> TRUE])
    ELSE ads

\* The handlers of `chain` called in order, oldest registration first.
RECURSIVE RunPriceChain(_, _, _, _)
RunPriceChain(ads, chain, sym, update) ==
    IF chain = <<>> THEN ads
    ELSE RunPriceChain(PriceHandler(ads, Head(chain), sym, update),
                       Tail(chain), sym, update)

\* The instances whose closure called setData for a frame of `sym`.
CalledSetData(ads, chain, sym) ==
    {chain[n] : n \in {m \in 1..Len(chain) : ads[chain[m]].symbolRef = sym}}

\* The mounted instances whose current symbol is `sym`.
Interest(ads, sym) ==
    {i \in 1..Len(ads) : ads[i].mounted /\ ads[i].symbol = sym}

\* ------------------------------------------------------------- useMarketStatus
NewStatusAdapter == [mounted |-> TRUE, status |-> "unknown"]

setStatus(sts, j, value) ==
    IF sts[j].mounted THEN [sts EXCEPT ![j].status = value] ELSE sts

RegisterStatusHandler(s, j) == [s EXCEPT !.onMarketStatus = Append(@, j)]

StatusEffect(s, j) == RegisterStatusHandler(connect(s), j)

RECURSIVE RunStatusChain(_, _, _)
RunStatusChain(sts, chain, status) ==
    IF chain = <<>> THEN sts
    ELSE RunStatusChain(setStatus(sts, Head(chain), status), Tail(chain), status)

\* ------------------------------------------------------------- useWebSocketPrices
\* Transports (new WebSocket) the hook instance creates in one run.
MaxHookSockets == 3

\* WS_BASE = (BACKEND_URL || '').replace(/^http/, 'ws'): empty when
\* EXPO_PUBLIC_BACKEND_URL is not set.
WsBaseOf(backendUrl) == IF backendUrl = "" THEN "" ELSE "ws://backend"
Endpoints == {WsBaseOf(url) : url \in {"", "http://backend"}}

\* The instance before its first render: state, refs, and what the runtime
\* holds for it.  `wanted` records what its callers asked for: the symbols
\* passed to subscribe() and not passed to unsubscribe() since.
InitHook ==
    [ life |-> "new",
      connected |-> FALSE,
      error |-> "none",
      wsRef |-> NULL,
      reconnectTimeoutRef |-> NULL,
      subscribedSymbolsRef |-> {},
      heartbeatInterval |-> FALSE,
      sockets |-> <<>>,
      timeouts |-> {},
      sent |-> <<>>,
      wanted |-> {} ]

\* React's state setters: an update for an unmounted instance is dropped.
setConnected(h, value) ==
    IF h.life = "mounted" THEN [h EXCEPT !.connected = value] ELSE h
setError(h, value) ==
    IF h.life = "mounted" THEN [h EXCEPT !.error = value] ELSE h

\* wsRef.current is set and OPEN.
HookOpen(h) == h.wsRef # NULL /\ h.sockets[h.wsRef].readyState = OPEN

hook_connect(h, base) ==
    IF base = ""
    THEN setError(h, "Backend URL not configured")
    ELSE [h EXCEPT !.sockets = Append(@, NewSocket), !.wsRef = Len(h.sockets) + 1]

\* ws.onopen of transport k: the replay is written to k itself.
hook_onopen(h, k) ==
    LET h1 == setError(setConnected(h, TRUE), "none")
    IN  IF h1.subscribedSymbolsRef # {}
        THEN [h1 EXCEPT !.sent = Append(@,
                 [SubscribeFrame(h1.subscribedSymbolsRef) EXCEPT !.sock = k])]
        ELSE h1

hook_onerror(h) == setError(h, "Connection error")

\* ws.onclose of transport k; the handle of the timeout it arms is k.
hook_onclose(h, k) ==
    [setConnected(h, FALSE) EXCEPT !.reconnectTimeoutRef = k,
                                   !.timeouts = @ \cup {k}]

hook_disconnect(h) ==
    LET h1 == IF h.reconnectTimeoutRef # NULL
              THEN [h EXCEPT !.timeouts = @ \ {h.reconnectTimeoutRef},
                             !.reconnectTimeoutRef = NULL]
              ELSE h
        h2 == IF h1.wsRef # NULL
              THEN [h1 EXCEPT !.sockets[h1.wsRef] = SocketClose(@), !.wsRef = NULL]
              ELSE h1
    IN  setConnected(h2, FALSE)

hook_send(h, msg) == [h EXCEPT !.sent = Append(@, [msg EXCEPT !.sock = h.wsRef])]

hook_subscribe(h, base, symbols) ==
    IF ~HookOpen(h)
    THEN LET h1 == [h EXCEPT !.subscribedSymbolsRef = @ \cup symbols]
         IN  IF ~h1.connected THEN hook_connect(h1, base) ELSE h1
    ELSE [hook_send(h, SubscribeFrame(symbols))
             EXCEPT !.subscribedSymbolsRef = @ \cup symbols]

hook_unsubscribe(h, symbols) ==
    IF ~HookOpen(h)
    THEN h
    ELSE [hook_send(h, UnsubscribeFrame(symbols))
             EXCEPT !.subscribedSymbolsRef = @ \ symbols]

\* The callback of the 30 s interval of the mount effect.
hook_heartbeat(h) == IF HookOpen(h) THEN hook_send(h, PingFrame) ELSE h

\* ------------------------------------------------------------- inbound frames
PriceFrame(sym, update) ==
    [type |-> "price_update", symbol |-> sym, data |-> update, status |-> "none"]
StatusFrame(status) ==
    [type |-> "market_status", symbol |-> "none", data |-> "none", status |-> status]

Frames ==
    {PriceFrame(sym, u) : sym \in Symbols, u \in Updates}
        \cup {StatusFrame(st) : st \in FrameStatuses}

\* msg.data?.status ?? 'unknown'
StatusOf(frame) == IF frame.status = "none" THEN "unknown" ELSE frame.status

\* ws.onmessage: the adapters' state after the frame was dispatched.
onmessagePrices(s, ads, frame) ==
    IF frame.type = "price_update" /\ s.onPriceUpdate # <<>>
    THEN RunPriceChain(ads, s.onPriceUpdate, frame.symbol, frame.data)
    ELSE ads

onmessageStatus(s, sts, frame) ==
    IF frame.type = "price_update" /\ s.onPriceUpdate # <<>>
    THEN sts
    ELSE IF frame.type = "market_status" /\ s.onMarketStatus # <<>>
         THEN RunStatusChain(sts, s.onMarketStatus, StatusOf(frame))
         ELSE sts

\* ------------------------------------------------------------- steps
NoFrame == [type |-> "none", symbol |-> "none", data |-> "none", status |-> "none"]

Op(name, k, armed, noop, frame) ==
    [name |-> name, sock |-> k, armed |-> armed, noop |-> noop, frame |-> frame]

\* Every handler starts with nothing written yet.
Begin(s) == [s EXCEPT !.sent = <<>>]

\* connect() may create a transport only below the bound.
CanConnect(s) == ConnectIsNoop(s) \/ Len(s.sockets) < MaxSockets

Init ==
    /\ sys = InitManager
    /\ adapters = <<>>
    /\ statuses = <<>>
    /\ lastOp = Op("init", NULL, 0, FALSE, NoFrame)
    /\ torn = FALSE
    /\ hook = InitHook
    /\ WS_BASE = WsBaseOf("http://backend")

\* A caller invokes wsManager.connect().
Connect ==
    /\ CanConnect(sys)
    /\ sys' = connect(Begin(sys))
    /\ lastOp' = Op("connect", NULL, 0, ConnectIsNoop(sys), NoFrame)
    /\ torn' = FALSE
    /\ UNCHANGED <<adapters, statuses, hook, WS_BASE>>

\* A caller invokes wsManager.disconnect().
Disconnect ==
    /\ sys' = disconnect(Begin(sys))
    /\ lastOp' = Op("disconnect", NULL, 0, FALSE, NoFrame)
    /\ torn' = TRUE
    /\ UNCHANGED <<adapters, statuses, hook, WS_BASE>>

\* A caller invokes wsManager.subscribe(symbols).
Subscribe ==
    \E symbols \in (SUBSET Symbols) \ {{}} :
        /\ sys' = subscribe(Begin(sys), symbols)
        /\ lastOp' = Op("subscribe", NULL, 0, FALSE, NoFrame)
        /\ UNCHANGED <<adapters, statuses, torn, hook, WS_BASE>>

\* A caller invokes wsManager.unsubscribe(symbols).
Unsubscribe ==
    \E symbols \in (SUBSET Symbols) \ {{}} :
        /\ sys' = unsubscribe(Begin(sys), symbols)
        /\ lastOp' = Op("unsubscribe", NULL, 0, FALSE, NoFrame)
        /\ UNCHANGED <<adapters, statuses, torn, hook, WS_BASE>>

\* The transport k finishes its handshake: readyState becomes OPEN and its
\* open event runs ws.onopen.
SocketOpens ==
    \E k \in 1..Len(sys.sockets) :
        /\ sys.sockets[k].readyState = CONNECTING
        /\ WS_BASE # ""
        /\ sys' = onopen([Begin(sys) EXCEPT !.sockets[k].readyState = OPEN,
                                             !.sockets[k].opened = TRUE], k)
        /\ lastOp' = Op("onopen", k, 0, FALSE, NoFrame)
        /\ UNCHANGED <<adapters, statuses, torn, hook, WS_BASE>>

\* The transport k closes (failed handshake, drop, or the end of a close()
\* the client started): readyState becomes CLOSED and its close event runs
\* ws.onclose in the same task.
SocketCloses ==
    \E k \in 1..Len(sys.sockets) :
        /\ sys.sockets[k].readyState # CLOSED
        /\ sys' = onclose([Begin(sys) EXCEPT !.sockets[k].readyState = CLOSED,
                                              !.sockets[k].subs = {}], k)
        /\ lastOp' = Op("onclose", k, sys.reconnectDelay, FALSE, NoFrame)
        /\ UNCHANGED <<adapters, statuses, torn, hook, WS_BASE>>

\* A pending reconnect timeout fires.
ReconnectTimer ==
    \E t \in sys.timeouts :
        /\ CanConnect(sys)
        /\ sys' = reconnectCallback([Begin(sys) EXCEPT !.timeouts = @ \ {t}])
        /\ lastOp' = Op("reconnectTimer", t, 0, FALSE, NoFrame)
        /\ UNCHANGED <<adapters, statuses, torn, hook, WS_BASE>>

\* An active heartbeat interval ticks.
HeartbeatTick ==
    \E h \in sys.intervals :
        /\ sys' = _send(Begin(sys), PingFrame)
        /\ lastOp' = Op("heartbeat", h, 0, FALSE, NoFrame)
        /\ UNCHANGED <<adapters, statuses, torn, hook, WS_BASE>>

\* A component using useRealtimePrice(symbol) mounts: both effects run.
MountPrice ==
    \E symbol \in Symbols :
        LET i == Len(adapters) + 1
            s1 == PriceEffect(Begin(sys), i, symbol)
        IN  /\ Len(adapters) < MaxAdapters
            /\ Len(sys.onPriceUpdate) < MaxActivations
            /\ CanConnect(sys)
            /\ sys' = s1
            /\ adapters' = Append(adapters,
                   [NewAdapter(symbol) EXCEPT !.data.connected = isConnected(s1)])
            /\ lastOp' = Op("mountPrice", NULL, 0, FALSE, NoFrame)
            /\ torn' = FALSE
            /\ UNCHANGED <<statuses, hook, WS_BASE>>

\* The symbol prop of instance i changes: cleanup, then the effect again.
ChangeSymbol ==
    \E i \in 1..Len(adapters), symbol \in Symbols :
        LET s1 == PriceCleanup(Begin(sys), adapters[i].symbol) IN
        /\ adapters[i].mounted
        /\ symbol # adapters[i].symbol
        /\ Len(sys.onPriceUpdate) < MaxActivations
        /\ CanConnect(s1)
        /\ sys' = PriceEffect(s1, i, symbol)
        /\ adapters' = [adapters EXCEPT ![i].symbol = symbol, ![i].symbolRef = symbol]
        /\ lastOp' = Op("changeSymbol", NULL, 0, FALSE, NoFrame)
        /\ torn' = FALSE
        /\ UNCHANGED <<statuses, hook, WS_BASE>>

\* Instance i unmounts: the cleanup of its effect runs, and React drops the
\* instance's state.
UnmountPrice ==
    \E i \in 1..Len(adapters) :
        /\ adapters[i].mounted
        /\ sys' = PriceCleanup(Begin(sys), adapters[i].symbol)
        /\ adapters' = [adapters EXCEPT ![i].mounted = FALSE, ![i].data = InitData]
        /\ lastOp' = Op("unmountPrice", NULL, 0, FALSE, NoFrame)
        /\ UNCHANGED <<statuses, torn, hook, WS_BASE>>

\* A component using useMarketStatus() mounts.
MountStatus ==
    LET j == Len(statuses) + 1 IN
    /\ Len(statuses) < MaxStatusAdapters
    /\ CanConnect(sys)
    /\ sys' = StatusEffect(Begin(sys), j)
    /\ statuses' = Append(statuses, NewStatusAdapter)
    /\ lastOp' = Op("mountStatus", NULL, 0, FALSE, NoFrame)
    /\ torn' = FALSE
    /\ UNCHANGED <<adapters, hook, WS_BASE>>

\* It unmounts: the effect has no cleanup; React drops the instance's state.
UnmountStatus ==
    \E j \in 1..Len(statuses) :
        /\ statuses[j].mounted
        /\ sys' = Begin(sys)
        /\ statuses' = [statuses EXCEPT ![j].mounted = FALSE, ![j].status = "unknown"]
        /\ lastOp' = Op("unmountStatus", NULL, 0, FALSE, NoFrame)
        /\ UNCHANGED <<adapters, torn, hook, WS_BASE>>

\* The open transport k delivers a frame: ws.onmessage runs.
Receive ==
    \E k \in 1..Len(sys.sockets), frame \in Frames :
        /\ sys.sockets[k].readyState = OPEN
        /\ sys' = Begin(sys)
        /\ adapters' = onmessagePrices(sys, adapters, frame)
        /\ statuses' = onmessageStatus(sys, statuses, frame)
        /\ lastOp' = Op("onmessage", k, 0, FALSE, frame)
        /\ UNCHANGED <<torn, hook, WS_BASE>>

\* The manager under arbitrary calls of its public methods, transport events
\* and timers.
Next ==
    \/ Connect
    \/ Disconnect
    \/ Subscribe
    \/ Unsubscribe
    \/ SocketOpens
    \/ SocketCloses
    \/ ReconnectTimer
    \/ HeartbeatTick

Spec == Init /\ [][Next]_vars

\* The application creates at most MaxAppSockets transports.
AppCap == Len(sys'.sockets) <= MaxAppSockets

\* The application: hook instances drive the manager and the open transport
\* delivers frames.  (The heartbeat only writes a ping; it is part of Spec.)
NextApp ==
    \/ MountPrice /\ AppCap
    \/ ChangeSymbol /\ AppCap
    \/ UnmountPrice
    \/ MountStatus /\ AppCap
    \/ UnmountStatus
    \/ Receive
    \/ SocketOpens
    \/ SocketCloses
    \/ ReconnectTimer /\ AppCap

SpecApp == Init /\ [][NextApp]_vars

\* ------------------------------------------------------------- malformed frames
\* A property that is absent from a parsed message reads as undefined.
UNDEFINED == -1

\* msg.data of a price_update frame that carries no data: spreading it
\* ({ ...update, connected: true }) yields no price, change or volume.
MissingData == [price |-> UNDEFINED, change |-> UNDEFINED, volume |-> UNDEFINED]

\* Frames the feed should not send: a payload JSON.parse rejects (the catch
\* swallows it), a type the handler does not know, a price_update without a
\* symbol, and a price_update without data.
MalformedFrames ==
    {[type |-> "non_json", symbol |-> "none", data |-> MissingData, status |-> "none"],
     [type |-> "unrecognized", symbol |-> "none", data |-> MissingData, status |-> "none"]}
        \cup {PriceFrame("none", u) : u \in Updates}
        \cup {PriceFrame(sym, MissingData) : sym \in Symbols}

\* The open transport k delivers a malformed frame: ws.onmessage runs.
ReceiveMalformed ==
    \E k \in 1..Len(sys.sockets), frame \in MalformedFrames :
        /\ sys.sockets[k].readyState = OPEN
        /\ sys' = Begin(sys)
        /\ adapters' = onmessagePrices(sys, adapters, frame)
        /\ statuses' = onmessageStatus(sys, statuses, frame)
        /\ lastOp' = Op("onmessage", k, 0, FALSE, frame)
        /\ UNCHANGED <<torn, hook, WS_BASE>>

\* The application on a feed that also sends malformed frames.
NextFrames ==
    \/ MountPrice /\ AppCap
    \/ ChangeSymbol /\ AppCap
    \/ UnmountPrice
    \/ MountStatus /\ AppCap
    \/ UnmountStatus
    \/ Receive
    \/ ReceiveMalformed
    \/ SocketOpens
    \/ SocketCloses
    \/ ReconnectTimer /\ AppCap

SpecFrames == Init /\ [][NextFrames]_vars

\* ------------------------------------------------------------- retries
\* A transport fails or drops while a further one can still be created.
SocketDrops == SocketCloses /\ Len(sys.sockets) < MaxSockets

\* The manager when no caller ever calls disconnect(): every close is
\* unplanned.
NextRetry ==
    \/ Connect
    \/ Subscribe
    \/ SocketOpens
    \/ SocketDrops
    \/ ReconnectTimer
    \/ HeartbeatTick

\* A timeout that is pending and not cleared fires.
SpecRetry == Init /\ [][NextRetry]_vars /\ WF_vars(ReconnectTimer)

\* ------------------------------------------------------------- useWebSocketPrices steps
HookBegin(h) == [h EXCEPT !.sent = <<>>]

\* The instance creates a transport only below the bound.
HookCanConnect == WS_BASE = "" \/ Len(hook.sockets) < MaxHookSockets

\* The component using useWebSocketPrices() mounts: the mount effect runs.
HookMount ==
    /\ hook.life = "new"
    /\ hook' = [hook_connect([HookBegin(hook) EXCEPT !.life = "mounted"], WS_BASE)
                    EXCEPT !.heartbeatInterval = TRUE]
    /\ lastOp' = Op("hookMount", NULL, 0, FALSE, NoFrame)
    /\ UNCHANGED <<sys, adapters, statuses, torn, WS_BASE>>

\* It unmounts: the cleanup of the mount effect runs.
HookUnmount ==
    /\ hook.life = "mounted"
    /\ hook' = [hook_disconnect(HookBegin(hook))
                    EXCEPT !.heartbeatInterval = FALSE, !.life = "unmounted",
                           !.connected = FALSE, !.error = "none"]
    /\ lastOp' = Op("hookUnmount", NULL, 0, FALSE, NoFrame)
    /\ UNCHANGED <<sys, adapters, statuses, torn, WS_BASE>>

\* The component calls subscribe(symbols).
HookSubscribe ==
    \E symbols \in (SUBSET Symbols) \ {{}} :
        /\ hook.life = "mounted"
        /\ HookCanConnect
        /\ hook' = [hook_subscribe(HookBegin(hook), WS_BASE, symbols)
                        EXCEPT !.wanted = @ \cup symbols]
        /\ lastOp' = Op("hookSubscribe", NULL, 0, FALSE, NoFrame)
        /\ UNCHANGED <<sys, adapters, statuses, torn, WS_BASE>>

\* The component calls unsubscribe(symbols).
HookUnsubscribe ==
    \E symbols \in (SUBSET Symbols) \ {{}} :
        /\ hook.life = "mounted"
        /\ hook' = [hook_unsubscribe(HookBegin(hook), symbols)
                        EXCEPT !.wanted = @ \ symbols]
        /\ lastOp' = Op("hookUnsubscribe", NULL, 0, FALSE, NoFrame)
        /\ UNCHANGED <<sys, adapters, statuses, torn, WS_BASE>>

\* The transport k of the hook finishes its handshake: ws.onopen runs.
HookOpens ==
    \E k \in 1..Len(hook.sockets) :
        /\ hook.sockets[k].readyState = CONNECTING
        /\ hook' = hook_onopen([HookBegin(hook) EXCEPT !.sockets[k].readyState = OPEN,
                                                       !.sockets[k].opened = TRUE], k)
        /\ lastOp' = Op("hookOpen", k, 0, FALSE, NoFrame)
        /\ UNCHANGED <<sys, adapters, statuses, torn, WS_BASE>>

\* The transport k of the hook closes: after a failure the error event runs
\* ws.onerror first; the close event runs ws.onclose.
HookCloses ==
    \E k \in 1..Len(hook.sockets), failed \in BOOLEAN :
        /\ hook.sockets[k].readyState # CLOSED
        /\ failed => ~hook.sockets[k].byClient
        /\ hook' = hook_onclose(
                       LET h == [HookBegin(hook) EXCEPT !.sockets[k].readyState = CLOSED]
                       IN  IF failed THEN hook_onerror(h) ELSE h, k)
        /\ lastOp' = Op("hookClose", k, 0, FALSE, NoFrame)
        /\ UNCHANGED <<sys, adapters, statuses, torn, WS_BASE>>

\* A pending reconnect timeout of the hook fires: its callback calls connect().
HookReconnectTimer ==
    \E t \in hook.timeouts :
        /\ HookCanConnect
        /\ hook' = hook_connect([HookBegin(hook) EXCEPT !.timeouts = @ \ {t}], WS_BASE)
        /\ lastOp' = Op("hookReconnectTimer", t, 0, FALSE, NoFrame)
        /\ UNCHANGED <<sys, adapters, statuses, torn, WS_BASE>>

\* The heartbeat interval of the mount effect ticks.
HookHeartbeat ==
    /\ hook.heartbeatInterval
    /\ hook' = hook_heartbeat(HookBegin(hook))
    /\ lastOp' = Op("hookHeartbeat", NULL, 0, FALSE, NoFrame)
    /\ UNCHANGED <<sys, adapters, statuses, torn, WS_BASE>>

\* The hook instance on its own, with the endpoint configured or not.
InitHookSpec ==
    /\ sys = InitManager
    /\ adapters = <<>>
    /\ statuses = <<>>
    /\ lastOp = Op("init", NULL, 0, FALSE, NoFrame)
    /\ torn = FALSE
    /\ hook = InitHook
    /\ WS_BASE \in Endpoints

NextHook ==
    \/ HookMount
    \/ HookUnmount
    \/ HookSubscribe
    \/ HookUnsubscribe
    \/ HookOpens
    \/ HookCloses
    \/ HookReconnectTimer
    \/ HookHeartbeat

SpecHook == InitHookSpec /\ [][NextHook]_vars

\* ------------------------------------------------------------- missing endpoint
\* EXPO_PUBLIC_BACKEND_URL is not set: WS_BASE is the empty string and the
\* manager's url is the relative '/ws/prices'.
InitUnconfigured ==
    /\ sys = InitManager
    /\ adapters = <<>>
    /\ statuses = <<>>
    /\ lastOp = Op("init", NULL, 0, FALSE, NoFrame)
    /\ torn = FALSE
    /\ hook = InitHook
    /\ WS_BASE = WsBaseOf("")

\* A caller invokes wsManager.connect() on a platform whose WebSocket
\* constructor rejects the relative url: the async connect() rejects and the
\* manager is as it was.  (Where the constructor accepts it, Connect applies
\* and the transport can only fail.)
ConnectThrows ==
    /\ WS_BASE = ""
    /\ ~ConnectIsNoop(sys)
    /\ sys' = Begin(sys)
    /\ lastOp' = Op("connectThrows", NULL, 0, FALSE, NoFrame)
    /\ torn' = FALSE
    /\ UNCHANGED <<adapters, statuses, hook, WS_BASE>>

\* The manager with no endpoint configured: no transport ever opens.
NextUnconfigured ==
    \/ Connect
    \/ ConnectThrows
    \/ Disconnect
    \/ Subscribe
    \/ Unsubscribe
    \/ SocketCloses
    \/ ReconnectTimer

SpecUnconfigured == InitUnconfigured /\ [][NextUnconfigured]_vars

\* ------------------------------------------------------------- market status
\* type MarketStatus.
MarketStatus == {"open", "closed", "pre-market", "weekend", "unknown"}

\* A status string the feed may carry that the type does not list.
OtherStatuses == {"holiday"}

\* The open transport k delivers a market_status frame whose status is not
\* one of MarketStatus: ws.onmessage runs.
ReceiveOtherStatus ==
    \E k \in 1..Len(sys.sockets), status \in OtherStatuses :
        LET frame == StatusFrame(status) IN
        /\ sys.sockets[k].readyState = OPEN
        /\ sys' = Begin(sys)
        /\ adapters' = onmessagePrices(sys, adapters, frame)
        /\ statuses' = onmessageStatus(sys, statuses, frame)
        /\ lastOp' = Op("onmessage", k, 0, FALSE, frame)
        /\ UNCHANGED <<torn, hook, WS_BASE>>

\* useMarketStatus instances over the manager, on a feed that may carry any
\* status string.
NextStatus ==
    \/ MountStatus /\ AppCap
    \/ UnmountStatus
    \/ MountPrice /\ AppCap
    \/ Receive
    \/ ReceiveOtherStatus
    \/ SocketOpens
    \/ SocketCloses
    \/ ReconnectTimer /\ AppCap

SpecStatus == Init /\ [][NextStatus]_vars

\* ------------------------------------------------------------- backoff
\* Transports created in one run of the backoff specification: enough for the
\* delay to be doubled up to the ceiling and once more.
MaxBackoffSockets == 7

\* A pending reconnect timeout fires, under the bound of this specification.
BackoffTimer ==
    \E t \in sys.timeouts :
        /\ ConnectIsNoop(sys) \/ Len(sys.sockets) < MaxBackoffSockets
        /\ sys' = reconnectCallback([Begin(sys) EXCEPT !.timeouts = @ \ {t}])
        /\ lastOp' = Op("reconnectTimer", t, 0, FALSE, NoFrame)
        /\ UNCHANGED <<adapters, statuses, torn, hook, WS_BASE>>

\* The manager connected and left to its transport events and timers.
NextBackoff ==
    \/ Connect
    \/ SocketOpens
    \/ SocketCloses
    \/ BackoffTimer

SpecBackoff == Init /\ [][NextBackoff]_vars

\* ------------------------------------------------------------- claims
\* The transports that are CONNECTING or OPEN.
Live(s) == {k \in 1..Len(s.sockets) : s.sockets[k].readyState \in {CONNECTING, OPEN}}

\* Unplanned closes since the last successful open.  Transports open and
\* close (unplanned) in creation order, so these are the transports from the
\* last one that opened on that closed without close() having been called.
LastOpened(s) ==
    LET opened == {k \in 1..Len(s.sockets) : s.sockets[k].opened}
    IN  IF opened = {} THEN 1 ELSE CHOOSE k \in opened : \A j \in opened : j <= k

Failures(s) ==
    Cardinality({k \in LastOpened(s)..Len(s.sockets) :
                    s.sockets[k].readyState = CLOSED /\ ~s.sockets[k].byClient})

\* The last step was the close event of a transport the client had not closed.
UnplannedClose == lastOp.name = "onclose" /\ ~sys.sockets[lastOp.sock].byClient

\* C1: after disconnect() has returned, and as long as no caller calls
\* connect() again, no reconnect timer fires (and so no transport is created:
\* only connect() creates one, and the timer is its only other caller).
C1_DisconnectTerminal == torn => lastOp.name # "reconnectTimer"

\* C3: on every open of a transport the handler writes exactly one subscribe
\* frame carrying the whole wanted set as it is at that moment, and writes no
\* subscribe frame when the set is empty.
C3_ReconnectReplay ==
    lastOp.name = "onopen" =>
        sys.sent = IF sys.subscribedSymbols # {}
                   THEN <<[action |-> "subscribe",
                           symbols |-> sys.subscribedSymbols,
                           sock |-> lastOp.sock]>>
                   ELSE <<>>

\* A reconnect (not the first transport) replayed a non-empty wanted set.
C3_Witness ==
    /\ lastOp.name = "onopen"
    /\ lastOp.sock > 1
    /\ sys.subscribedSymbols = {"ACME"}
    /\ Len(sys.sent) = 1

\* C4: the delay armed at the k-th consecutive unplanned close (no successful
\* open in between) is min(1000 * 2^(k-1), 30000).
C4_BackoffSequence ==
    UnplannedClose =>
        lastOp.armed = Min(ReconnectFloor * 2 ^ (Failures(sys) - 1), ReconnectCeiling)

\* C5: the first unplanned close after a successful open arms the timer with
\* the floor delay.
C5_BackoffReset ==
    (UnplannedClose /\ sys.sockets[lastOp.sock].opened) =>
        lastOp.armed = ReconnectFloor

\* C6: at most one transport created by the manager is CONNECTING or OPEN.
C6_SingleTransport == Cardinality(Live(sys)) <= 1

\* A transport closed by disconnect() still awaits its close event while the
\* next one is live.
C6_Witness ==
    /\ Len(sys.sockets) >= 2
    /\ sys.sockets[1].readyState = CLOSING
    /\ Live(sys) = {2}

\* C7: connect() called while the current transport is OPEN or CONNECTING
\* creates no transport and leaves every field of the manager, every transport
\* and every timer as it was.
C7_ConnectIdempotent ==
    [][(/\ lastOp'.name = "connect"
        /\ sys.ws # NULL
        /\ sys.sockets[sys.ws].readyState \in {OPEN, CONNECTING})
       => [sys' EXCEPT !.sent = <<>>] = [sys EXCEPT !.sent = <<>>]]_vars

\* connect() returned early on an open transport, with a wanted set, a running
\* heartbeat and a pending reconnect timer in place.
C7_Witness ==
    /\ lastOp.name = "connect"
    /\ lastOp.noop
    /\ sys.sockets[sys.ws].readyState = OPEN
    /\ sys.subscribedSymbols # {}
    /\ sys.intervals # {}
    /\ sys.timeouts # {}

\* The manager is connected: its flag is set and its transport is OPEN.
Connected(s) ==
    /\ s.connected
    /\ s.ws # NULL
    /\ s.sockets[s.ws].readyState = OPEN

\* The frames of `sent` with the given action that name `sym`.
FramesFor(sent, action, sym) ==
    Cardinality({n \in 1..Len(sent) :
                    sent[n].action = action /\ sym \in sent[n].symbols})

\* The last step ran an effect or a cleanup of useRealtimePrice.
AdapterOps == {"mountPrice", "changeSymbol", "unmountPrice"}

\* C2: no unsubscribe frame names a symbol that a mounted adapter still wants.
C2_NoUnsubscribeWhileWanted ==
    \A n \in 1..Len(sys.sent) :
        sys.sent[n].action = "unsubscribe" =>
            \A sym \in sys.sent[n].symbols : Interest(adapters, sym) = {}

\* C8: while connected, an adapter's subscribe or unsubscribe puts exactly one
\* subscribe frame for a symbol on the wire when its interest count goes from
\* 0 to 1 and none otherwise, and exactly one unsubscribe frame when the count
\* returns to 0 and none otherwise.
C8_ExactlyOnceFrames ==
    [][(lastOp'.name \in AdapterOps /\ Connected(sys) /\ Connected(sys')) =>
        \A sym \in Symbols :
            LET before == Cardinality(Interest(adapters, sym))
                after == Cardinality(Interest(adapters', sym))
            IN  /\ FramesFor(sys'.sent, "subscribe", sym)
                       = IF before = 0 /\ after > 0 THEN 1 ELSE 0
                /\ FramesFor(sys'.sent, "unsubscribe", sym)
                       = IF before > 0 /\ after = 0 THEN 1 ELSE 0]_vars

\* Two mounted useRealtimePrice instances on different symbols and a mounted
\* useMarketStatus instance.
FanOutCase(ads, sts) ==
    /\ \E i, j \in 1..Len(ads) :
          /\ ads[i].mounted
          /\ ads[j].mounted
          /\ ads[i].symbol # ads[j].symbol
    /\ \E j \in 1..Len(sts) : sts[j].mounted

\* C9: with two per-symbol adapters on different symbols and a market-status
\* adapter mounted, a price_update frame for a symbol sets the state of every
\* mounted adapter of that symbol to the update and changes no other adapter
\* and no status; a market_status frame sets every mounted status adapter and
\* changes no price adapter.
C9_FanOut ==
    [][(lastOp'.name = "onmessage" /\ FanOutCase(adapters, statuses)) =>
        LET frame == lastOp'.frame IN
        /\ frame.type = "price_update" =>
              /\ statuses' = statuses
              /\ \A i \in 1..Len(adapters) :
                    adapters'[i].data =
                        IF adapters[i].mounted /\ adapters[i].symbol = frame.symbol
                        THEN [price |-> frame.data.price,
                              change |-> frame.data.change,
                              volume |-> frame.data.volume,
                              connected |-> TRUE]
                        ELSE adapters[i].data
        /\ frame.type = "market_status" =>
              /\ adapters' = adapters
              /\ \A j \in 1..Len(statuses) :
                    statuses'[j].status =
                        IF statuses[j].mounted
                        THEN (IF frame.status = "none" THEN "unknown" ELSE frame.status)
                        ELSE statuses[j].status]_vars

\* A price frame for the symbol of the adapter that registered first reached
\* it, after a second adapter and the status adapter had registered, and left
\* the second adapter without data.
C9_Witness ==
    /\ lastOp.name = "onmessage"
    /\ lastOp.frame.type = "price_update"
    /\ FanOutCase(adapters, statuses)
    /\ Len(adapters) = 2
    /\ sys.onPriceUpdate = <<1, 2>>
    /\ adapters[1].symbol = lastOp.frame.symbol
    /\ adapters[1].data.price = lastOp.frame.data.price
    /\ adapters[2].data.price = NULL

\* C10: a price_update frame makes no handler of an unmounted adapter call its
\* state setter.
C10_NoResidualObservation ==
    (lastOp.name = "onmessage" /\ lastOp.frame.type = "price_update") =>
        \A i \in CalledSetData(adapters, sys.onPriceUpdate, lastOp.frame.symbol) :
            adapters[i].mounted

\* The frame is one the feed should not send.
Malformed(frame) ==
    \/ frame.type \notin {"price_update", "market_status"}
    \/ /\ frame.type = "price_update"
       /\ (frame.symbol = "none" \/ frame.data.price = UNDEFINED)

\* C11: a malformed frame (not JSON, unrecognized type, price_update without
\* symbol or without data) leaves the state of every price adapter and of
\* every status adapter as it was.
C11_MalformedFrameTolerance ==
    [][(lastOp'.name = "onmessage" /\ Malformed(lastOp'.frame)) =>
        (adapters' = adapters /\ statuses' = statuses)]_vars

\* The frames the manager hands to _send.
OutboundFrames ==
    {PingFrame}
        \cup {SubscribeFrame(symbols) : symbols \in (SUBSET Symbols) \ {{}}}
        \cup {UnsubscribeFrame(symbols) : symbols \in (SUBSET Symbols) \ {{}}}

\* C12: every frame a handler wrote went to a transport that is OPEN, and
\* while the current transport is not OPEN (or there is none) a send of any
\* frame writes nothing, queues nothing and changes no field of the manager.
C12_SendOnlyWhenOpen ==
    /\ \A n \in 1..Len(sys.sent) :
          sys.sockets[sys.sent[n].sock].readyState = OPEN
    /\ (sys.ws = NULL \/ sys.sockets[sys.ws].readyState # OPEN) =>
          \A msg \in OutboundFrames : _send(sys, msg) = sys

\* The heartbeat wrote a ping to the open transport while an earlier
\* transport, closed by disconnect(), still awaits its close event.
C12_Witness ==
    /\ lastOp.name = "heartbeat"
    /\ sys.sent = <<[PingFrame EXCEPT !.sock = sys.ws]>>
    /\ sys.sockets[sys.ws].readyState = OPEN
    /\ \E k \in 1..Len(sys.sockets) : sys.sockets[k].readyState = CLOSING

\* A subscribe() call arrived while the transport was still CONNECTING and
\* wrote nothing.
C12_DroppedCase ==
    /\ lastOp.name = "subscribe"
    /\ sys.ws # NULL
    /\ sys.sockets[sys.ws].readyState = CONNECTING
    /\ sys.sent = <<>>

\* C13: when subscribe(symbols) returns, a connection is open or under way:
\* called with no transport OPEN or CONNECTING, it has called connect().
C13_SubscribeStartsConnection ==
    lastOp.name = "subscribe" => ConnectIsNoop(sys)

\* C14: when disconnect() returns, no reconnect timeout and no heartbeat
\* interval created by the manager is pending.
C14_DisconnectCancelsTimers ==
    lastOp.name = "disconnect" => (sys.timeouts = {} /\ sys.intervals = {})

\* C15: while the manager is not connected, no heartbeat interval is active,
\* and no handler that runs then writes a ping frame.
C15_HeartbeatStopsOnClose ==
    ~Connected(sys) =>
        /\ sys.intervals = {}
        /\ \A n \in 1..Len(sys.sent) : sys.sent[n].action # "ping"

\* The close event of a transport that had opened and started its heartbeat
\* has run, and the interval is gone.
C15_Witness ==
    /\ lastOp.name = "onclose"
    /\ sys.sockets[lastOp.sock].opened
    /\ sys.heartbeatInterval = lastOp.sock
    /\ ~sys.connected
    /\ sys.intervals = {}

\* C16: while the manager's current transport is OPEN (its open event is
\* handled in the step that opens it), the heartbeat interval started for it
\* is active.
C16_HeartbeatWhileConnected ==
    (sys.ws # NULL /\ sys.sockets[sys.ws].readyState = OPEN) =>
        sys.ws \in sys.intervals

\* C17: isConnected() is true exactly when the manager's current transport is
\* OPEN (its open event is handled in the step that opens it).
C17_IsConnectedExact ==
    isConnected(sys) <=> (sys.ws # NULL /\ sys.sockets[sys.ws].readyState = OPEN)

\* C18: with no disconnect(), every unplanned close arms a reconnect timeout,
\* and every pending timeout is followed by its callback, after which a
\* transport is CONNECTING or OPEN; however many closes came before.
C18_RetriesNeverGiveUp ==
    /\ [](UnplannedClose => lastOp.sock \in sys.timeouts)
    /\ \A k \in 1..MaxSockets :
          (k \in sys.timeouts) ~>
              (lastOp.name = "reconnectTimer" /\ lastOp.sock = k /\ Live(sys) # {})

\* The timeout of the second consecutive failure fired and created the third
\* transport; none has ever opened.
C18_Witness ==
    /\ lastOp.name = "reconnectTimer"
    /\ lastOp.sock = 2
    /\ Len(sys.sockets) = 3
    /\ \A k \in 1..2 : sys.sockets[k].readyState = CLOSED /\ ~sys.sockets[k].opened
    /\ sys.ws = 3
    /\ sys.reconnectDelay = 4 * ReconnectFloor

\* C19: the subscribe frame replayed when a transport of the hook opens names
\* no symbol that was passed to unsubscribe() and not to subscribe() since.
C19_NoStaleSubscription ==
    lastOp.name = "hookOpen" =>
        \A n \in 1..Len(hook.sent) : hook.sent[n].symbols \subseteq hook.wanted

\* C20: with the endpoint address missing, the manager creates no transport
\* and arms no reconnect timeout.
C20_NoRetryWhenUnconfigured ==
    WS_BASE = "" => (Len(sys.sockets) = 0 /\ sys.timeouts = {})

\* The manager side of C19: in the application, subscribedSymbols holds no
\* symbol without a mounted adapter (holds under SpecApp).
ManagerNoStale ==
    \A sym \in sys.subscribedSymbols : Interest(adapters, sym) # {}

\* The hook side of C20: with the endpoint missing, the hook creates no
\* transport, arms no timeout and shows the error (holds under SpecHook).
HookConfigError ==
    WS_BASE = "" =>
        /\ Len(hook.sockets) = 0
        /\ hook.timeouts = {}
        /\ hook.life = "mounted" => hook.error = "Backend URL not configured"

\* C21: the manager's subscribedSymbols is exactly the set of symbols some
\* mounted useRealtimePrice instance currently subscribes to.
C21_WantedIsUnionOfInterest ==
    sys.subscribedSymbols = {sym \in Symbols : Interest(adapters, sym) # {}}

\* C22: while the manager's current transport is OPEN (its open event is
\* handled in the step that opens it; a written frame is delivered at once),
\* the feed's subscription set for it equals subscribedSymbols.
C22_FeedMirrorsWanted ==
    (sys.ws # NULL /\ sys.sockets[sys.ws].readyState = OPEN) =>
        sys.sockets[sys.ws].subs = sys.subscribedSymbols

\* The same while the connected flag is set as well (holds under Spec).
FeedMirrorsWhileFlagged ==
    Connected(sys) => sys.sockets[sys.ws].subs = sys.subscribedSymbols

\* The calls that wrote the frames of `sent`: <<action, symbols>> in order.
CallsOf(sent) == [n \in 1..Len(sent) |-> <<sent[n].action, sent[n].symbols>>]

\* What a handler of the hook must have done to the manager: the wanted set
\* it leaves, and, if the manager was connected, exactly these frames.
Balanced(calls, wanted) ==
    /\ sys'.subscribedSymbols = wanted
    /\ CallsOf(sys'.sent) = IF sys.connected THEN calls ELSE <<>>

\* C23: an activation of a useRealtimePrice instance for symbol s makes one
\* subscribe([s]) call, and its deactivation one unsubscribe([s]) call for the
\* symbol of that activation; a symbol change is a deactivation followed by an
\* activation; no other call is made.
C23_BalancedLifecycle ==
    [][/\ lastOp'.name = "mountPrice" =>
            LET s == adapters'[Len(adapters')].symbol
            IN  Balanced(<< <<"subscribe", {s}>> >>, sys.subscribedSymbols \cup {s})
       /\ lastOp'.name = "unmountPrice" =>
            \A i \in 1..Len(adapters) :
                (adapters[i].mounted /\ ~adapters'[i].mounted) =>
                    LET s == adapters[i].symbol
                    IN  Balanced(<< <<"unsubscribe", {s}>> >>,
                                 sys.subscribedSymbols \ {s})
       /\ lastOp'.name = "changeSymbol" =>
            \A i \in 1..Len(adapters) :
                adapters'[i].symbol # adapters[i].symbol =>
                    LET s == adapters[i].symbol
                        t == adapters'[i].symbol
                    IN  Balanced(<< <<"unsubscribe", {s}>>, <<"subscribe", {t}>> >>,
                                 (sys.subscribedSymbols \ {s}) \cup {t})]_vars

\* A connected instance changed its symbol: its cleanup unsubscribed the old
\* symbol and its effect subscribed the new one.
C23_Witness ==
    /\ lastOp.name = "changeSymbol"
    /\ Len(sys.sent) = 2
    /\ sys.sent[1].action = "unsubscribe"
    /\ sys.sent[2].action = "subscribe"
    /\ sys.sent[1].symbols # sys.sent[2].symbols
    /\ sys.sent[2].symbols = {adapters[1].symbol}

\* C24: the status a useMarketStatus instance exposes is always one of
\* MarketStatus.
C24_StatusIsEnum ==
    \A j \in 1..Len(statuses) : statuses[j].status \in MarketStatus

\* The other parts of C24: a mounted instance's status changes only when a
\* market_status frame is dispatched, and then to that frame's status, an
\* absent one reading as 'unknown' (holds under SpecStatus).
StatusIsLastSeen ==
    [][\A j \in 1..Len(statuses) :
          (statuses[j].mounted /\ statuses'[j].mounted) =>
              statuses'[j].status =
                  IF lastOp'.name = "onmessage" /\ lastOp'.frame.type = "market_status"
                  THEN StatusOf(lastOp'.frame)
                  ELSE statuses[j].status]_vars

\* C25: when the open or the close event of a transport has been handled,
\* the connected field of every mounted useRealtimePrice instance equals the
\* manager's isConnected().
C25_AdapterConnectedIsLive ==
    lastOp.name \in {"onopen", "onclose"} =>
        \A i \in 1..Len(adapters) :
            adapters[i].mounted => adapters[i].data.connected = isConnected(sys)

\* C26: at most one transport created by the useWebSocketPrices instance is
\* CONNECTING or OPEN.
C26_HookSingleTransport == Cardinality(Live(hook)) <= 1

\* C27: at most one reconnect timeout armed by the manager is pending.
C27_SingleReconnectTimer == Cardinality(sys.timeouts) <= 1

\* C28: the close event of a transport that is not the manager's current one
\* leaves the connected flag, the active heartbeat interval and the pending
\* reconnect timeouts as they were.
C28_SupersededEventsInert ==
    [][(lastOp'.name = "onclose" /\ lastOp'.sock # sys.ws) =>
        /\ sys'.connected = sys.connected
        /\ sys'.intervals = sys.intervals
        /\ sys'.timeouts = sys.timeouts]_vars

\* C29: the number of handlers chained onto onPriceUpdate equals the number
\* of mounted useRealtimePrice instances, and the number chained onto
\* onMarketStatus the number of mounted useMarketStatus instances.
C29_ChainBoundedByAdapters ==
    /\ Len(sys.onPriceUpdate)
           = Cardinality({i \in 1..Len(adapters) : adapters[i].mounted})
    /\ Len(sys.onMarketStatus)
           = Cardinality({j \in 1..Len(statuses) : statuses[j].mounted})

\* The delays min(1000 * 2^n, 30000).
BackoffDelays == {1000, 2000, 4000, 8000, 16000, 30000}

\* C30: reconnectDelay is always one of 1000, 2000, 4000, 8000, 16000 and
\* 30000, and only the open handler and the reconnect-timer callback change
\* it.
C30_BackoffInRange ==
    /\ [](sys.reconnectDelay \in BackoffDelays)
    /\ [][sys'.reconnectDelay # sys.reconnectDelay =>
              lastOp'.name \in {"onopen", "reconnectTimer"}]_vars

\* The delay was at the ceiling and has been doubled once more: seven
\* transports failed or were replaced in a row without one opening.
C30_Witness ==
    /\ lastOp.name = "reconnectTimer"
    /\ sys.reconnectDelay = ReconnectCeiling
    /\ Len(sys.sockets) = 7
    /\ \A k \in 1..6 : ~sys.sockets[k].opened
    /\ Cardinality(sys.timeouts) = 0

=============================================================================
